---- MODULE Spec2Model ----
(***************************************************************************)
(* A model of givelit: the relevance scorer (relevance.py), the concurrent *)
(* multi-journal fetch (cli.py, fetcher.py) and the ranking pipeline of    *)
(* the radar command (cli.py).                                             *)
(*                                                                         *)
(* Conventions.                                                            *)
(*  - A Python str is a sequence of one-character strings.                 *)
(*  - An Optional value is <<>> (None) or <<v>>.                           *)
(*  - A float score is kept exactly, in hundredths: 6.0 is 600.            *)
(*    round(score, 2) is the nearest hundredth of the exact rational, ties *)
(*    to even (binary floating point error is not modelled).               *)
(*  - Time is counted in whole days: `published` is a day number (the      *)
(*    fetcher builds it at midnight UTC), `reference` is the day of "now", *)
(*    so (reference - published).days is their difference.                 *)
(***************************************************************************)
EXTENDS Integers, Sequences, FiniteSets, TLC

VARIABLES
    \* ---- the scorer, called on one paper (relevance.py)
    paper,            \* the Paper object handed to compute_relevance
    kws,              \* its keywords argument
    recency_window,   \* its recency_window argument
    reference,        \* the time "now" of the call
    bonus,            \* the freshness term of the last call (a local)
    calls,            \* how many times compute_relevance has run on paper
    \* ---- one run of the radar command (cli.py)
    pc,               \* where the run is
    keywords,         \* --keyword as given
    keyword_list,     \* _normalise_keywords(keywords)
    max_results,      \* --limit
    days,             \* --days
    sort_strategy,    \* --sort
    upstream,         \* what the API answers for each journal
    task,             \* the state of each journal's asyncio task
    requests,         \* client.get calls issued, per journal
    doneQueue,        \* completed tasks as_completed has not yielded yet
    completionOrder,  \* the journals in the order their tasks completed
    combined,         \* _fetch_with_progress's local list
    journal_chunks,   \* what _fetch_with_progress returned to radar
    empty_journals,   \* names of the journals with no papers
    all_papers,       \* radar's papers, collected and scored
    papers,           \* radar's papers after the url and age filter
    ordered,          \* _sort_papers(papers, sort_strategy)
    top_papers,       \* the papers handed to the renderer
    rendered,         \* whether a report was rendered
    exit_code,        \* the exit code of the process
    \* ---- one call of CrossrefFetcher.fetch_for_journal (fetcher.py)
    fetch_max_results, \* its max_results argument
    rows,             \* the rows parameter of the request sent
    items,            \* the items of the payload received
    fetched,          \* the papers the call returned
    \* ---- one call of _group_by_coverage (reporting.py)
    group_papers,     \* its papers argument
    total_keywords,   \* its total_keywords argument
    groups            \* the dict it returned, as its (level, papers) items;
                      \* None before the call

scoreVars == <<paper, kws, recency_window, reference, bonus, calls>>
runVars == <<pc, keywords, keyword_list, max_results, days, sort_strategy,
             upstream, task, requests, doneQueue, completionOrder, combined,
             journal_chunks, empty_journals, all_papers, papers, ordered,
             top_papers, rendered, exit_code>>
fetchVars == <<fetch_max_results, rows, items, fetched>>
coverVars == <<group_papers, total_keywords, groups>>
vars == <<scoreVars, runVars, fetchVars, coverVars>>

None == <<>>
Some(v) == <<v>>
IsNone(o) == o = <<>>
Get(o) == o[1]

Max(a, b) == IF a >= b THEN a ELSE b
Min(a, b) == IF a <= b THEN a ELSE b

(***************************************************************************)
(* Strings                                                                 *)
(***************************************************************************)
UpperCase == <<"A","B","C","D","E","F","G","H","I","J","K","L","M",
               "N","O","P","Q","R","S","T","U","V","W","X","Y","Z">>
LowerCase == <<"a","b","c","d","e","f","g","h","i","j","k","l","m",
               "n","o","p","q","r","s","t","u","v","w","x","y","z">>

Letters == 1..26

\* str.lower() on one character, as a table of the upper-case letters
LowerTable == [c \in {UpperCase[i] : i \in Letters} |->
                 LowerCase[CHOOSE i \in Letters : UpperCase[i] = c]]

LowerChar(c) == IF c \in DOMAIN LowerTable THEN LowerTable[c] ELSE c

\* str.lower()
Lower(s) == [i \in 1..Len(s) |-> LowerChar(s[i])]

\* the code points of space, A-Z and a-z, which order strings
CodeTable == [c \in {" "} \cup {UpperCase[i] : i \in Letters}
                         \cup {LowerCase[i] : i \in Letters} |->
                IF c = " " THEN 32
                ELSE IF \E i \in Letters : UpperCase[i] = c
                     THEN 64 + (CHOOSE i \in Letters : UpperCase[i] = c)
                     ELSE 96 + (CHOOSE i \in Letters : LowerCase[i] = c)]

CharCode(c) == CodeTable[c]

RECURSIVE LStrip(_)
LStrip(s) == IF s # <<>> /\ Head(s) = " " THEN LStrip(Tail(s)) ELSE s

RECURSIVE RStrip(_)
RStrip(s) ==
    IF s # <<>> /\ s[Len(s)] = " " THEN RStrip(SubSeq(s, 1, Len(s) - 1)) ELSE s

\* str.strip()
Strip(s) == RStrip(LStrip(s))

\* whether sub occurs in s at position i
OccursAt(s, sub, i) ==
    /\ i >= 1
    /\ i + Len(sub) - 1 <= Len(s)
    /\ \A k \in 1..Len(sub) : s[i + k - 1] = sub[k]

RECURSIVE CountFrom(_, _, _)
CountFrom(s, sub, i) ==
    IF i + Len(sub) - 1 > Len(s) THEN 0
    ELSE IF OccursAt(s, sub, i) THEN 1 + CountFrom(s, sub, i + Len(sub))
    ELSE CountFrom(s, sub, i + 1)

\* str.count(sub): the non-overlapping occurrences, scanning from the left
\* (Python counts len(s) + 1 occurrences of the empty string)
Count(s, sub) == IF sub = <<>> THEN Len(s) + 1 ELSE CountFrom(s, sub, 1)

RECURSIVE Join(_)
\* " ".join(parts)
Join(parts) ==
    IF parts = <<>> THEN <<>>
    ELSE IF Len(parts) = 1 THEN parts[1]
    ELSE parts[1] \o <<" ">> \o Join(Tail(parts))

(***************************************************************************)
(* models.py                                                               *)
(***************************************************************************)
\* Paper(journal, title, url, published, summary, source_score); relevance
\* defaults to 0.0.  match_count and age_days are the fields cli.py and
\* reporting.py read; authors is not modelled (nothing modelled reads it).
NewPaper(journal, title, url, published, summary, source_score) ==
    [journal |-> journal, title |-> title, url |-> url,
     published |-> published, summary |-> summary, relevance |-> 0,
     source_score |-> source_score, match_count |-> 0, age_days |-> None]

(***************************************************************************)
(* relevance.py: compute_relevance                                         *)
(***************************************************************************)
TitleWeight == 600        \* 6.0 per title hit
BodyWeight == 250         \* 2.5 per hit in title + " " + summary
SourceDivisor == 10       \* source_score / 10.0
FreshnessWeight == 500    \* freshness * 5.0

TextSurfaceTitleOnly(p) == Lower(p.title)

\* text = f"{paper.title} {paper.summary or ''}".lower()
TextSurface(p) ==
    Lower(p.title \o <<" ">> \o (IF IsNone(p.summary) THEN <<>> ELSE Get(p.summary)))

\* title = paper.title.lower()
TitleSurface(p) == Lower(p.title)

TargetKeepCase(keyword) == Strip(keyword)

\* target = keyword.lower().strip()
Target(keyword) == Strip(Lower(keyword))

\* one iteration of the keyword loop: what it adds to score
KeywordPoints(p, keyword) ==
    LET target == Target(keyword)
        title_hits == Count(TitleSurface(p), target)
        body_hits == Count(TextSurface(p), target)
    IN  IF target = <<>> THEN 0
        ELSE TitleWeight * title_hits + BodyWeight * body_hits

RECURSIVE KeywordScore(_, _)
\* the keyword loop
KeywordScore(p, keywords_arg) ==
    IF keywords_arg = <<>> THEN 0
    ELSE KeywordPoints(p, Head(keywords_arg)) + KeywordScore(p, Tail(keywords_arg))

InitialScoreAccumulating(p) == p.relevance

\* score = 0.0
InitialScore(p) == 0

\* if paper.source_score: score += float(paper.source_score) / 10.0
\* (a rational: SourcePoints / SourceDivisor hundredths)
SourcePoints(p) ==
    IF ~IsNone(p.source_score) /\ Get(p.source_score) # 0
    THEN Get(p.source_score) ELSE 0

\* age_days = (now - paper.published).days
AgeOf(p, now) == now - Get(p.published)

\* window = max(recency_window, 1)
Window(window_arg) == Max(window_arg, 1)

FreshnessUnclamped(window_arg, age_days) ==
    [num |-> Window(window_arg) - age_days, den |-> Window(window_arg)]

\* freshness = max(0.0, (window - age_days) / window), as num / den
Freshness(window_arg, age_days) ==
    [num |-> Max(0, Window(window_arg) - age_days), den |-> Window(window_arg)]

FreshnessTermAnyDate(p, window_arg, now) ==
    IF ~IsNone(p.published)
    THEN Some(Freshness(window_arg, AgeOf(p, now)))
    ELSE None

\* the freshness term: None when the branch is not taken
FreshnessTerm(p, window_arg, now) ==
    IF ~IsNone(p.published) /\ AgeOf(p, now) >= 0
    THEN Some(Freshness(window_arg, AgeOf(p, now)))
    ELSE None

\* round(x, 2) of x = num / den hundredths, den > 0: nearest, ties to even
Round(num, den) ==
    LET q == num \div den
        r == num % den
    IN  IF 2 * r < den THEN q
        ELSE IF 2 * r > den THEN q + 1
        ELSE IF q % 2 = 0 THEN q ELSE q + 1

\* the value assigned to paper.relevance
Relevance(p, keywords_arg, window_arg, now) ==
    LET f == FreshnessTerm(p, window_arg, now)
        w == Window(window_arg)
        den == SourceDivisor * w
        fresh == IF IsNone(f) THEN 0
                 ELSE FreshnessWeight * SourceDivisor * Get(f).num
    IN  Round((InitialScore(p) + KeywordScore(p, keywords_arg)) * den
                + SourcePoints(p) * w + fresh, den)

RECURSIVE MatchCount(_, _)
\* match_count: one per keyword with a hit in the combined surface
MatchCount(p, keywords_arg) ==
    IF keywords_arg = <<>> THEN 0
    ELSE (IF Target(Head(keywords_arg)) # <<>>
             /\ Count(TextSurface(p), Target(Head(keywords_arg))) > 0
          THEN 1 ELSE 0) + MatchCount(p, Tail(keywords_arg))

\* age_days: set when published is known and not after the reference time
AgeDays(p, now) ==
    IF ~IsNone(p.published) /\ AgeOf(p, now) >= 0 THEN Some(AgeOf(p, now)) ELSE None

\* compute_relevance(paper, keywords, recency_window, reference): the paper
\* after the call
ComputeRelevance(p, keywords_arg, window_arg, now) ==
    [p EXCEPT !.relevance = Relevance(p, keywords_arg, window_arg, now),
              !.match_count = MatchCount(p, keywords_arg),
              !.age_days = AgeDays(p, now)]

(***************************************************************************)
(* journals.py                                                             *)
(***************************************************************************)
DEFAULT_JOURNALS ==
    << [key |-> "nature-microbiology",
        name |-> <<"N","a","t","u","r","e"," ",
                   "M","i","c","r","o","b","i","o","l","o","g","y">>,
        container_title |-> <<"N","a","t","u","r","e"," ",
                              "M","i","c","r","o","b","i","o","l","o","g","y">>],
       [key |-> "science",
        name |-> <<"S","c","i","e","n","c","e">>,
        container_title |-> <<"S","c","i","e","n","c","e">>],
       [key |-> "cell-systems",
        name |-> <<"C","e","l","l"," ","S","y","s","t","e","m","s">>,
        container_title |-> <<"C","e","l","l"," ","S","y","s","t","e","m","s">>] >>

\* resolve_journals(None): the run is started without --journal
journal_configs == DEFAULT_JOURNALS

J == 1..Len(journal_configs)

(***************************************************************************)
(* fetcher.py: fetch_for_journal                                           *)
(***************************************************************************)
Take(seq, n) == SubSeq(seq, 1, Min(n, Len(seq)))

\* query = " ".join(keywords).strip()
Query(keywords_arg) == Strip(Join(keywords_arg))

Untitled == <<"U","n","t","i","t","l","e","d">>

\* one item of the payload as a Paper; the item's date and abstract are
\* taken as _parse_date and _clean_abstract return them
ItemToPaper(journal, item) ==
    NewPaper(journal.name,
             IF IsNone(item.title) THEN Untitled ELSE Get(item.title),
             IF IsNone(item.URL) THEN "" ELSE Get(item.URL),
             item.published, item.abstract, item.score)

\* the papers fetch_for_journal returns for a successful response
FetchedPapers(journal, items_arg, limit) ==
    Take([i \in 1..Len(items_arg) |-> ItemToPaper(journal, items_arg[i])], limit * 2)

\* the per-journal result as cli.py reads it: result.journal, result.papers
FetchResult(journal, papers_arg) == [journal |-> journal, papers |-> papers_arg]

RetryOnError(kind) == IF kind = "ok" THEN "done" ELSE "created"

\* response = await client.get(...); response.raise_for_status(): how the
\* task ends ("failed_http": an httpx.HTTPError, status or transport)
RaiseForStatus(kind) == IF kind = "ok" THEN "done" ELSE "failed_http"

(***************************************************************************)
(* cli.py                                                                  *)
(***************************************************************************)
KeepUnstripped(keywords_arg) ==
    LET kept == SelectSeq(keywords_arg, LAMBDA kw : kw # <<>>)
    IN  [i \in 1..Len(kept) |-> Strip(kept[i])]

\* _normalise_keywords: cleaned (empty: typer.BadParameter is raised)
NormaliseKeywords(keywords_arg) ==
    LET kept == SelectSeq(keywords_arg, LAMBDA kw : Strip(kw) # <<>>)
    IN  [i \in 1..Len(kept) |-> Strip(kept[i])]

AgeUnknown == 1000000

AgeValueUnknownFirst(p) == IF IsNone(p.age_days) THEN -1 ELSE Get(p.age_days)

\* age_value(paper)
AgeValue(p) == IF IsNone(p.age_days) THEN AgeUnknown ELSE Get(p.age_days)

Codes(s) == [i \in 1..Len(s) |-> CharCode(s[i])]

\* the sort key of a paper: a tuple whose parts are numbers (<<n>>) or
\* strings (their code points)
SortKey(p, strategy) ==
    IF strategy = "score"
    THEN << <<-p.relevance>>, <<AgeValue(p)>>, Codes(Lower(p.title)) >>
    ELSE IF strategy = "recency"
    THEN << <<AgeValue(p)>>, <<-p.relevance>>, Codes(Lower(p.title)) >>
    ELSE << Codes(Lower(p.journal)), <<-p.relevance>>, <<AgeValue(p)>> >>

RECURSIVE SeqLess(_, _)
\* a < b for two strings (or two numbers)
SeqLess(a, b) ==
    IF b = <<>> THEN FALSE
    ELSE IF a = <<>> THEN TRUE
    ELSE IF Head(a) # Head(b) THEN Head(a) < Head(b)
    ELSE SeqLess(Tail(a), Tail(b))

RECURSIVE KeyLess(_, _)
\* k1 < k2 for two tuples
KeyLess(k1, k2) ==
    IF k1 = <<>> \/ k2 = <<>> THEN FALSE
    ELSE IF Head(k1) # Head(k2) THEN SeqLess(Head(k1), Head(k2))
    ELSE KeyLess(Tail(k1), Tail(k2))

\* x placed after every element of out whose key is not greater
InsertSorted(out, x, strategy) ==
    LET later == {i \in 1..Len(out) :
                    KeyLess(SortKey(x, strategy), SortKey(out[i], strategy))}
        at == IF later = {} THEN Len(out) + 1
              ELSE CHOOSE i \in later : \A k \in later : i <= k
    IN  SubSeq(out, 1, at - 1) \o <<x>> \o SubSeq(out, at, Len(out))

RECURSIVE SortInto(_, _, _)
SortInto(out, rest, strategy) ==
    IF rest = <<>> THEN out
    ELSE SortInto(InsertSorted(out, Head(rest), strategy), Tail(rest), strategy)

SortPapersUnsorted(papers_arg, strategy) == papers_arg

\* _sort_papers: sorted(papers, key=key), a stable sort
SortPapers(papers_arg, strategy) == SortInto(<<>>, papers_arg, strategy)

RECURSIVE ExtendAll(_)
\* papers after the loop over journal_chunks
ExtendAll(chunks) ==
    IF chunks = <<>> THEN <<>>
    ELSE Head(chunks).papers \o ExtendAll(Tail(chunks))

EmptyJournalsLaunchOrder(chunks) ==
    LET empty == SelectSeq(journal_configs,
                           LAMBDA c : \E i \in 1..Len(chunks) :
                                          /\ chunks[i].journal = c
                                          /\ chunks[i].papers = <<>>)
    IN  [i \in 1..Len(empty) |-> empty[i].name]

\* empty_journals after the loop over journal_chunks
EmptyJournals(chunks) ==
    LET empty == SelectSeq(chunks, LAMBDA r : r.papers = <<>>)
    IN  [i \in 1..Len(empty) |-> empty[i].journal.name]

RecencyWindowDefault(days_arg) == IF days_arg > 0 THEN days_arg ELSE 30

\* recency_window = days if days > 0 else 0
RecencyWindow(days_arg) == IF days_arg > 0 THEN days_arg ELSE 0

\* papers after the scoring loop
ScoreAll(papers_arg, keywords_arg, days_arg, now) ==
    [i \in 1..Len(papers_arg) |->
        ComputeRelevance(papers_arg[i], keywords_arg, RecencyWindow(days_arg), now)]

KeptExclusive(p, days_arg) ==
    /\ p.url # ""
    /\ ~(days_arg > 0 /\ ~IsNone(p.age_days) /\ Get(p.age_days) >= days_arg)

\* whether the filter loop keeps a paper
Kept(p, days_arg) ==
    /\ p.url # ""
    /\ ~(days_arg > 0 /\ ~IsNone(p.age_days) /\ Get(p.age_days) > days_arg)

\* filtered
Filtered(papers_arg, days_arg) == SelectSeq(papers_arg, LAMBDA p : Kept(p, days_arg))

\* top_papers = ordered[:max_results]
TopPapers(chunks, keywords_arg, days_arg, strategy, limit, now) ==
    Take(SortPapers(Filtered(ScoreAll(ExtendAll(chunks), keywords_arg, days_arg, now),
                             days_arg), strategy), limit)

(***************************************************************************)
(* fetcher.py: the size of the page fetch_for_journal asks for.            *)
(***************************************************************************)
\* rows = max(20, min(max_results * 3, 150))
RowsUnclamped(limit) == limit * 3
Rows(limit) == Max(20, Min(limit * 3, 150))

(***************************************************************************)
(* reporting.py: the coverage level of a paper and the grouping of the     *)
(* report's papers by level. A dict is the sequence of its items, in       *)
(* insertion order.                                                        *)
(***************************************************************************)
Levels == <<"full", "near", "partial", "single">>

CoverageLevelNoFloor(p, total) ==
    IF total <= 0 THEN "unmatched"
    ELSE IF p.match_count >= total THEN "full"
    ELSE IF p.match_count >= total - 1 THEN "near"
    ELSE IF p.match_count >= 1 THEN "partial"
    ELSE "single"

\* _coverage_level(paper, total_keywords)
CoverageLevel(p, total) ==
    IF total <= 0 THEN "unmatched"
    ELSE IF p.match_count >= total THEN "full"
    ELSE IF p.match_count >= Max(total - 1, 1) THEN "near"
    ELSE IF p.match_count >= 1 THEN "partial"
    ELSE "single"

\* groups[level] once the loop has appended every paper to its level's list
Bucket(papers_arg, total, level) ==
    SelectSeq(papers_arg, LAMBDA p : CoverageLevel(p, total) = level)

\* _group_by_coverage(papers, total_keywords): the returned dict holds the
\* four named levels only, and of these the non-empty ones
GroupByCoverage(papers_arg, total) ==
    LET named == [i \in 1..Len(Levels) |->
                    [level |-> Levels[i],
                     papers |-> Bucket(papers_arg, total, Levels[i])]]
    IN  SelectSeq(named, LAMBDA g : g.papers # <<>>)

\* the fetch and the grouping at rest
FetchIdle ==
    /\ fetch_max_results = 1
    /\ rows = None
    /\ items = <<>>
    /\ fetched = None

CoverIdle ==
    /\ group_papers = <<>>
    /\ total_keywords = 0
    /\ groups = None

(***************************************************************************)
(* The scorer on its own: compute_relevance called, one or more times, on  *)
(* one paper with fixed keywords, recency window and reference time.       *)
(***************************************************************************)
MaxTitleLen == 3
MaxKeywords == 2
MaxCalls == 2

TitleAlphabet == {"m", "M"}
Titles == UNION {[1..n -> TitleAlphabet] : n \in 0..MaxTitleLen}
Summaries == {None, Some(<<"M">>)}
KeywordPool == {<<"m">>, <<" ", "M", "m">>, <<" ">>}
KeywordLists == UNION {[1..n -> KeywordPool] : n \in 0..MaxKeywords}
\* source scores in hundredths: absent, 0, -30.00, 12.35
SourceScores == {None, Some(0), Some(-3000), Some(1235)}
ReferenceDays == {10}
\* publication days: unknown, tomorrow, today, 2 and 3 days ago
PublishedDays == {None, Some(11), Some(10), Some(8), Some(7)}
RecencyWindows == {0, 3}

NoBonus == None

\* the radar command at rest: the scorer's specification does not run it
RunIdle ==
    /\ pc = "idle"
    /\ keywords = <<>>
    /\ keyword_list = <<>>
    /\ max_results = 1
    /\ days = 0
    /\ sort_strategy = "score"
    /\ upstream = <<>>
    /\ task = <<>>
    /\ requests = <<>>
    /\ doneQueue = <<>>
    /\ completionOrder = <<>>
    /\ combined = <<>>
    /\ journal_chunks = None
    /\ empty_journals = <<>>
    /\ all_papers = <<>>
    /\ papers = <<>>
    /\ ordered = <<>>
    /\ top_papers = <<>>
    /\ rendered = FALSE
    /\ exit_code = None

ScoreInit ==
    /\ paper \in {NewPaper(<<"S">>, t, "u", d, s, x) :
                    t \in Titles, d \in PublishedDays, s \in Summaries,
                    x \in SourceScores}
    /\ kws \in KeywordLists
    /\ recency_window \in RecencyWindows
    /\ reference \in ReferenceDays
    /\ bonus = NoBonus
    /\ calls = 0
    /\ RunIdle
    /\ FetchIdle
    /\ CoverIdle

\* compute_relevance(paper, kws, recency_window, reference=reference)
Score ==
    /\ calls < MaxCalls
    /\ paper' = ComputeRelevance(paper, kws, recency_window, reference)
    /\ bonus' = FreshnessTerm(paper, recency_window, reference)
    /\ calls' = calls + 1
    /\ UNCHANGED <<kws, recency_window, reference>>
    /\ UNCHANGED <<runVars, fetchVars, coverVars>>

ScoreNext == Score

SpecScore == ScoreInit /\ [][ScoreNext]_vars

(***************************************************************************)
(* One run of the radar command over the default journals.  The API's      *)
(* answer to each journal is fixed when the run starts; the order in which *)
(* the requests complete is not.                                           *)
(***************************************************************************)
MaxLimit == 2

\* items of a payload (title, URL, issued, abstract, score); Item1 and Item5
\* are two articles with the same title and date
Item1 == [title |-> Some(<<"M">>), URL |-> Some("a"), published |-> Some(10),
          abstract |-> None, score |-> None]
Item2 == [title |-> None, URL |-> Some("b"), published |-> None,
          abstract |-> Some(<<"m">>), score |-> Some(1235)]
Item3 == [title |-> Some(<<"m", "M">>), URL |-> None, published |-> Some(7),
          abstract |-> None, score |-> None]
Item4 == [title |-> Some(<<"m">>), URL |-> Some("c"), published |-> Some(6),
          abstract |-> None, score |-> Some(0)]
Item5 == [title |-> Some(<<"M">>), URL |-> Some("d"), published |-> Some(10),
          abstract |-> None, score |-> None]

\* what the API does with one request: a non-success status, a transport
\* error (a timeout included), or a payload
Responses ==
    { [kind |-> "http_status", items |-> <<>>],
      [kind |-> "transport", items |-> <<>>],
      [kind |-> "ok", items |-> <<>>],
      [kind |-> "ok", items |-> <<Item1>>],
      [kind |-> "ok", items |-> <<Item5>>],
      [kind |-> "ok", items |-> <<Item3, Item4, Item2>>] }

KeywordInputs ==
    { <<>>, << <<" ">> >>, << <<"m">> >>, << <<" ", "M">>, <<"u">> >> }
DaysOptions == {0, 3, 4}
SortStrategies == {"score", "recency", "journal"}

\* the scorer at rest: the run calls it on its own papers
ScoreIdle ==
    /\ paper = NewPaper(<<>>, <<>>, "", None, None, None)
    /\ kws = <<>>
    /\ recency_window = 0
    /\ bonus = NoBonus
    /\ calls = 0

RunInit ==
    /\ pc = "start"
    /\ keywords \in KeywordInputs
    /\ keyword_list = <<>>
    /\ max_results \in 1..MaxLimit
    /\ days \in DaysOptions
    /\ sort_strategy \in SortStrategies
    /\ upstream \in [J -> Responses]
    /\ task = <<>>
    /\ requests = <<>>
    /\ doneQueue = <<>>
    /\ completionOrder = <<>>
    /\ combined = <<>>
    /\ journal_chunks = None
    /\ empty_journals = <<>>
    /\ all_papers = <<>>
    /\ papers = <<>>
    /\ ordered = <<>>
    /\ top_papers = <<>>
    /\ rendered = FALSE
    /\ exit_code = None
    /\ reference \in ReferenceDays
    /\ ScoreIdle
    /\ FetchIdle
    /\ CoverIdle

Failed == {"failed_http", "failed_value"}

\* what the finished task of journal j holds
TaskResult(j) ==
    FetchResult(journal_configs[j],
                FetchedPapers(journal_configs[j], upstream[j].items, max_results))

\* keyword_list = _normalise_keywords(keywords)
Validate ==
    /\ pc = "start"
    /\ keyword_list' = NormaliseKeywords(keywords)
    /\ IF keyword_list' = <<>>
       THEN pc' = "rejected" /\ exit_code' = Some(2)
       ELSE pc' = "validated" /\ UNCHANGED exit_code
    /\ UNCHANGED <<keywords, max_results, days, sort_strategy, upstream, task,
                   requests, doneQueue, completionOrder, combined,
                   journal_chunks, empty_journals, all_papers, papers,
                   ordered, top_papers, rendered>>
    /\ UNCHANGED <<scoreVars, fetchVars, coverVars>>

\* asyncio.run(_fetch_with_progress(...)) up to the first await: one task
\* per journal is created
Launch ==
    /\ pc = "validated"
    /\ pc' = "fetching"
    /\ task' = [j \in J |-> "created"]
    /\ requests' = [j \in J |-> 0]
    /\ combined' = <<>>
    /\ UNCHANGED <<keywords, keyword_list, max_results, days, sort_strategy,
                   upstream, doneQueue, completionOrder, journal_chunks,
                   empty_journals, all_papers, papers,
                   ordered, top_papers, rendered, exit_code>>
    /\ UNCHANGED <<scoreVars, fetchVars, coverVars>>

\* the first step of the task of journal j, up to await client.get(...);
\* the event loop starts the tasks in the order they were created
StartRequest(j) ==
    /\ pc = "fetching"
    /\ task[j] = "created"
    /\ \A i \in J : i < j => task[i] # "created"
    /\ IF Query(keyword_list) = <<>>
       THEN /\ task' = [task EXCEPT ![j] = "failed_value"]
            /\ doneQueue' = Append(doneQueue, j)
            /\ completionOrder' = Append(completionOrder, j)
            /\ UNCHANGED requests
       ELSE /\ task' = [task EXCEPT ![j] = "inflight"]
            /\ requests' = [requests EXCEPT ![j] = @ + 1]
            /\ UNCHANGED <<doneQueue, completionOrder>>
    /\ UNCHANGED <<pc, keywords, keyword_list, max_results, days, sort_strategy,
                   upstream, combined, journal_chunks, empty_journals,
                   all_papers, papers,
                   ordered, top_papers, rendered, exit_code>>
    /\ UNCHANGED <<scoreVars, fetchVars, coverVars>>

\* the request of journal j ends and its task runs to its end; I/O is
\* polled only once every created task has run its first step
Complete(j) ==
    /\ pc = "fetching"
    /\ task[j] = "inflight"
    /\ \A i \in J : task[i] # "created"
    /\ LET end == RaiseForStatus(upstream[j].kind)
       IN  /\ task' = [task EXCEPT ![j] = end]
           /\ IF end = "created"
              THEN UNCHANGED <<doneQueue, completionOrder>>
              ELSE /\ doneQueue' = Append(doneQueue, j)
                   /\ completionOrder' = Append(completionOrder, j)
    /\ UNCHANGED <<pc, keywords, keyword_list, max_results, days, sort_strategy,
                   upstream, requests, combined, journal_chunks, empty_journals,
                   all_papers, papers,
                   ordered, top_papers, rendered, exit_code>>
    /\ UNCHANGED <<scoreVars, fetchVars, coverVars>>

NextInLaunchOrder(queue) ==
    CHOOSE j \in {queue[i] : i \in 1..Len(queue)} :
        \A i \in 1..Len(queue) : j <= queue[i]

\* for coro in asyncio.as_completed(tasks): the task yielded next
NextCompleted(queue) == Head(queue)

Without(queue, j) == SelectSeq(queue, LAMBDA x : x # j)

\* radar after _fetch_with_progress returned chunks: the papers are
\* collected, scored, filtered, sorted, cut and rendered
Report(chunks) ==
    /\ journal_chunks' = Some(chunks)
    /\ empty_journals' = EmptyJournals(chunks)
    /\ all_papers' = ScoreAll(ExtendAll(chunks), keyword_list, days, reference)
    /\ papers' = Filtered(all_papers', days)
    /\ ordered' = SortPapers(papers', sort_strategy)
    /\ top_papers' = Take(ordered', max_results)
    /\ group_papers' = top_papers'
    /\ total_keywords' = Len(keyword_list)
    /\ groups' = Some(GroupByCoverage(group_papers', total_keywords'))
    /\ rendered' = TRUE
    /\ exit_code' = Some(0)
    /\ pc' = "done"

\* whether as_completed has yielded every task once doneQueue is left as rest
AllYielded(rest) == Len(completionOrder) = Len(journal_configs) /\ rest = <<>>

\* result = await coro, the task having returned: combined.append(result);
\* after the last task the function returns and radar goes on to the report
AwaitResult ==
    /\ pc = "fetching"
    /\ doneQueue # <<>>
    /\ LET j == NextCompleted(doneQueue)
       IN  /\ task[j] = "done"
           /\ combined' = Append(combined, TaskResult(j))
           /\ doneQueue' = Without(doneQueue, j)
           /\ IF AllYielded(doneQueue')
              THEN Report(combined')
              ELSE UNCHANGED <<pc, journal_chunks, empty_journals, all_papers, papers,
                   ordered, top_papers,
                               rendered, exit_code, group_papers,
                               total_keywords, groups>>
    /\ UNCHANGED <<keywords, keyword_list, max_results, days, sort_strategy,
                   upstream, task, requests, completionOrder>>
    /\ UNCHANGED <<scoreVars, fetchVars>>

AwaitErrorSkipped ==
    /\ pc = "fetching"
    /\ doneQueue # <<>>
    /\ LET j == NextCompleted(doneQueue)
       IN  /\ task[j] \in Failed
           /\ doneQueue' = Without(doneQueue, j)
           /\ IF AllYielded(doneQueue')
              THEN Report(combined)
              ELSE UNCHANGED <<pc, journal_chunks, empty_journals, all_papers, papers,
                   ordered, top_papers,
                               rendered, exit_code, group_papers,
                               total_keywords, groups>>
    /\ UNCHANGED <<keywords, keyword_list, max_results, days, sort_strategy,
                   upstream, task, requests, completionOrder, combined>>
    /\ UNCHANGED <<scoreVars, fetchVars>>

\* result = await coro, the task having raised: the exception leaves
\* _fetch_with_progress, asyncio.run cancels the tasks still running, and
\* radar prints the error and raises typer.Exit(1) (an exception that is no
\* httpx.HTTPError is not caught and ends the process with 1 as well)
AwaitError ==
    /\ pc = "fetching"
    /\ doneQueue # <<>>
    /\ LET j == NextCompleted(doneQueue)
       IN  /\ task[j] \in Failed
           /\ doneQueue' = Without(doneQueue, j)
    /\ task' = [j \in J |->
                  IF task[j] \in {"created", "inflight"} THEN "cancelled"
                  ELSE task[j]]
    /\ exit_code' = Some(1)
    /\ pc' = "failed"
    /\ UNCHANGED <<keywords, keyword_list, max_results, days, sort_strategy,
                   upstream, requests, completionOrder, combined,
                   journal_chunks, empty_journals, all_papers, papers,
                   ordered, top_papers, rendered>>
    /\ UNCHANGED <<scoreVars, fetchVars, coverVars>>

RunNext ==
    \/ Validate
    \/ Launch
    \/ \E j \in J : StartRequest(j)
    \/ \E j \in J : Complete(j)
    \/ AwaitResult
    \/ AwaitError

Spec == RunInit /\ [][RunNext]_vars

(***************************************************************************)
(* The grouping on its own: _group_by_coverage called once on a list of    *)
(* papers with given match counts and a given number of keywords, zero and *)
(* negative numbers included.                                              *)
(***************************************************************************)
MaxGroupPapers == 3
MaxTotalKeywords == 3

MatchCounts == 0..MaxTotalKeywords
TotalOptions == -1..MaxTotalKeywords
GroupPaperPool ==
    {[NewPaper(<<"S">>, <<"m">>, "u", None, None, None)
        EXCEPT !.match_count = m] : m \in MatchCounts}
GroupPaperLists == UNION {[1..n -> GroupPaperPool] : n \in 0..MaxGroupPapers}

CoverInit ==
    /\ group_papers \in GroupPaperLists
    /\ total_keywords \in TotalOptions
    /\ groups = None
    /\ reference \in ReferenceDays
    /\ ScoreIdle
    /\ RunIdle
    /\ FetchIdle

\* groups = _group_by_coverage(papers, total_keywords)
Group ==
    /\ IsNone(groups)
    /\ groups' = Some(GroupByCoverage(group_papers, total_keywords))
    /\ UNCHANGED <<group_papers, total_keywords>>
    /\ UNCHANGED <<scoreVars, runVars, fetchVars>>

CoverNext == Group

SpecCoverage == CoverInit /\ [][CoverNext]_vars

(***************************************************************************)
(* One fetch on its own: fetch_for_journal called with a --limit value the *)
(* command line accepts, the request answered with a page of at most rows  *)
(* items.                                                                  *)
(***************************************************************************)
\* --limit: min=1, max=100
LimitMin == 1
LimitMax == 100

\* the i-th item of a page, in upstream order (told apart by its date)
NumberedItem(i) ==
    [title |-> Some(<<"m">>), URL |-> Some("a"), published |-> Some(i),
     abstract |-> None, score |-> None]

Page(n) == [i \in 1..n |-> NumberedItem(i)]

\* how many items the API returns for a request of a given page size: none,
\* one, exactly what the call will return, or a full page
PageSizes(rows_arg, limit) == {0, 1, Min(rows_arg, limit * 2), rows_arg}

FetchInit ==
    /\ fetch_max_results \in LimitMin..LimitMax
    /\ rows = None
    /\ items = <<>>
    /\ fetched = None
    /\ reference \in ReferenceDays
    /\ ScoreIdle
    /\ RunIdle
    /\ CoverIdle

\* params = {..., "rows": str(rows), ...}; await client.get(...)
SendRequest ==
    /\ IsNone(rows)
    /\ rows' = Some(Rows(fetch_max_results))
    /\ UNCHANGED <<fetch_max_results, items, fetched>>
    /\ UNCHANGED <<scoreVars, runVars, coverVars>>

\* the response arrives with n items: they are turned into papers and the
\* call returns papers[:max_results * 2]
ReceivePage ==
    /\ ~IsNone(rows)
    /\ IsNone(fetched)
    /\ \E n \in PageSizes(Get(rows), fetch_max_results) : items' = Page(n)
    /\ fetched' = Some(FetchedPapers(journal_configs[1], items',
                                     fetch_max_results))
    /\ UNCHANGED <<fetch_max_results, rows>>
    /\ UNCHANGED <<scoreVars, runVars, coverVars>>

FetchNext ==
    \/ SendRequest
    \/ ReceivePage

SpecFetch == FetchInit /\ [][FetchNext]_vars

(***************************************************************************)
(* Properties of the scorer (checked under SpecScore)                      *)
(***************************************************************************)
scored == calls >= 1

\* the largest number of pairwise non-overlapping occurrences of sub in s
NonOverlapping(s, sub) ==
    LET at == {i \in 1..Len(s) : OccursAt(s, sub, i)}
        disjoint(S) == \A a \in S : \A b \in S : a < b => b - a >= Len(sub)
        sizes == {Cardinality(S) : S \in {T \in SUBSET at : disjoint(T)}}
    IN  CHOOSE n \in sizes : \A k \in sizes : k <= n

\* 6.0 x title occurrences + 2.5 x occurrences in title + " " + summary,
\* summed over the keywords that are not empty once trimmed
RECURSIVE StatedKeywordSum(_, _)
StatedKeywordSum(p, ks) ==
    IF ks = <<>> THEN 0
    ELSE LET k == Lower(Strip(Head(ks)))
             both == p.title \o <<" ">>
                       \o (IF p.summary = None THEN <<>> ELSE p.summary[1])
         IN  (IF k = <<>> THEN 0
              ELSE 600 * NonOverlapping(Lower(p.title), k)
                     + 250 * NonOverlapping(Lower(both), k))
             + StatedKeywordSum(p, Tail(ks))

\* the stated score in hundredths, as a rational [num, den]
StatedScore(p, ks, window_arg, now) ==
    LET w == IF window_arg >= 1 THEN window_arg ELSE 1
        age == now - p.published[1]
        dated == p.published # None /\ age >= 0
        left == IF w - age > 0 THEN w - age ELSE 0
    IN  [num |-> StatedKeywordSum(p, ks) * 10 * w
                   + (IF p.source_score # None THEN p.source_score[1] * w ELSE 0)
                   + (IF dated THEN 5000 * left ELSE 0),
         den |-> 10 * w]

\* C6: after compute_relevance, paper.relevance is the stated sum rounded to
\* 2 decimals: 6.0 per title occurrence and 2.5 per occurrence in title + " "
\* + summary for every non-empty trimmed keyword (case-insensitive, not
\* overlapping), plus sourceScore / 10 when present, plus 5.0 x freshness
\* when the date is known and not in the future; one keyword with two title
\* hits and no summary, source score or date gives 17.0.
C6_ScoreFormula ==
    scored =>
        /\ LET x == StatedScore(paper, kws, recency_window, reference)
           IN  paper.relevance = Round(x.num, x.den)
        /\ (/\ kws = << <<"m">> >>
            /\ paper.title = <<"M", "m">>
            /\ paper.summary = None
            /\ paper.source_score = None
            /\ paper.published = None) => paper.relevance = 1700

C6_Witness ==
    /\ scored
    /\ kws = << <<"m">> >>
    /\ paper.title = <<"M", "m">>
    /\ paper.summary = None
    /\ paper.source_score = None
    /\ paper.published = None
    /\ paper.relevance = 1700

\* C7 as stated: after compute_relevance, paper.relevance >= 0 for every
\* paper, a negative sourceScore included.
C7_NonNegativeAlways == scored => paper.relevance >= 0

\* C7 as amended: after compute_relevance, paper.relevance >= 0 for every
\* paper whose sourceScore is absent or >= 0 (any title, summary, keywords,
\* date past, present, future or absent).
C7_NonNegativeUnlessSourceNegative ==
    (scored /\ (paper.source_score = None \/ paper.source_score[1] >= 0))
        => paper.relevance >= 0

C7_Witness ==
    /\ scored
    /\ paper.source_score = Some(0)
    /\ paper.published = Some(11)
    /\ reference = 10
    /\ paper.relevance = 0

\* C9: the freshness term of a call lies in [0, 5.0]: with window =
\* max(recency_window, 1) it is 5.0 x max(0, (window - age) / window) for a
\* paper dated at or before the reference time, so 5.0 at age 0, 0 at
\* age >= window, and there is no term (never a negative one) for a paper
\* dated after the reference time or not dated.
C9_FreshnessBounds ==
    scored =>
        LET w == IF recency_window >= 1 THEN recency_window ELSE 1
            age == reference - paper.published[1]
        IN  IF paper.published # None /\ age >= 0
            THEN /\ bonus # None
                 /\ bonus[1].den = w
                 /\ bonus[1].num = (IF w - age > 0 THEN w - age ELSE 0)
                 /\ 0 <= 500 * bonus[1].num
                 /\ 500 * bonus[1].num <= 500 * bonus[1].den
                 /\ (age = 0 => 500 * bonus[1].num = 500 * bonus[1].den)
                 /\ (age >= w => bonus[1].num = 0)
            ELSE bonus = None

C9_Witness ==
    /\ scored
    /\ paper.published = Some(7)
    /\ reference = 10
    /\ recency_window = 3
    /\ bonus = Some([num |-> 0, den |-> 3])

\* C10: a second or later call of compute_relevance with the same keywords,
\* window and reference time leaves relevance, match_count and age_days as
\* the first call set them.
C10_Idempotent ==
    [][scored =>
         /\ paper'.relevance = paper.relevance
         /\ paper'.match_count = paper.match_count
         /\ paper'.age_days = paper.age_days]_vars

C10_Witness ==
    /\ calls = 2
    /\ paper.relevance = 1700
    /\ paper.match_count = 1

(***************************************************************************)
(* Properties of the run (checked under Spec)                              *)
(***************************************************************************)
launched == task # <<>>

\* a journal whose request ended in a non-success status or transport error
requestFailed == \E j \in DOMAIN task : task[j] = "failed_http"

\* C1: once the request of some journal has ended in a non-success status or
\* a transport error, no result is returned to radar and no report is
\* rendered, whatever the other journals did; the failure is waiting to be
\* yielded or the run has ended, and it ends with exit code 1 and with no
\* task left running.
C1_AllOrNothing ==
    requestFailed =>
        /\ journal_chunks = None
        /\ ~rendered
        /\ all_papers = <<>>
        /\ papers = <<>>
        /\ ordered = <<>>
        /\ top_papers = <<>>
        /\ pc \in {"fetching", "failed"}
        /\ (pc = "fetching" =>
               \E i \in 1..Len(doneQueue) : task[doneQueue[i]] = "failed_http")
        /\ (pc = "failed" =>
               /\ exit_code = Some(1)
               /\ \A j \in J : task[j] \notin {"created", "inflight"})

C1_Witness ==
    /\ pc = "failed"
    /\ exit_code = Some(1)
    /\ Len(combined) = 1
    /\ combined[1].papers # <<>>
    /\ \E j \in J : task[j] = "cancelled"
    /\ \E j \in J : task[j] = "failed_http" /\ upstream[j].kind = "http_status"

\* C2: what _fetch_with_progress returns holds one FetchResult per journal,
\* none missing and none twice, in the order in which the fetches completed.
C2_CompletionOrder ==
    journal_chunks # None =>
        LET chunks == journal_chunks[1]
        IN  /\ Len(chunks) = Len(journal_configs)
            /\ \A j \in J :
                   Cardinality({i \in 1..Len(chunks) :
                                  chunks[i].journal = journal_configs[j]}) = 1
            /\ Len(completionOrder) = Len(chunks)
            /\ \A i \in 1..Len(chunks) :
                   chunks[i] = TaskResult(completionOrder[i])

C2_Witness ==
    /\ pc = "done"
    /\ completionOrder = <<3, 1, 2>>
    /\ journal_chunks # None
    /\ journal_chunks[1][1].journal.key = "cell-systems"

\* the papers a run hands to the renderer when the fetches complete in
\* launch order
launchOrderTop ==
    TopPapers([j \in J |-> TaskResult(j)], keyword_list, days, sort_strategy,
              max_results, reference)

sortKeys(papers_arg) ==
    [i \in 1..Len(papers_arg) |-> SortKey(papers_arg[i], sort_strategy)]

\* the papers of all journals that pass the filter
allFiltered ==
    Filtered(ScoreAll(ExtendAll([j \in J |-> TaskResult(j)]), keyword_list,
                      days, reference), days)

\* two papers of different journals with the same sort key
crossJournalTie ==
    LET all == allFiltered
        keys == sortKeys(all)
    IN  \E a \in 1..Len(all) : \E b \in 1..Len(all) :
            all[a].journal # all[b].journal /\ keys[a] = keys[b]

\* C3 as stated: the papers handed to the renderer are the same sequence for
\* every order in which the fetches complete.
C3_SameForEveryOrder == pc = "done" => top_papers = launchOrderTop

\* C3 as amended: for every completion order the papers handed to the
\* renderer have the same sequence of sort keys, and they are the same
\* papers unless two papers of different journals that pass the filter have
\* equal sort keys.
C3_SameKeysForEveryOrder ==
    pc = "done" =>
        LET expected == launchOrderTop
        IN  /\ sortKeys(top_papers) = sortKeys(expected)
            /\ (top_papers # expected => crossJournalTie)

C3_Witness ==
    /\ pc = "done"
    /\ completionOrder = <<2, 3, 1>>
    /\ ~crossJournalTie
    /\ Len(top_papers) = 2
    /\ top_papers[1].journal # top_papers[2].journal

\* every keyword given is empty once trimmed (or none is given)
blankKeywords == \A i \in 1..Len(keywords) : Strip(keywords[i]) = <<>>

\* C4: a run whose keyword list is empty, or whose keywords are all empty
\* once trimmed, is rejected by the validation with an error exit, never
\* reaches the fetch and issues no request for any journal.
C4_InvalidInputFailsFast ==
    blankKeywords =>
        /\ pc \in {"start", "rejected"}
        /\ ~launched
        /\ \A j \in DOMAIN requests : requests[j] = 0
        /\ (pc = "rejected" => exit_code # None /\ exit_code # Some(0))
        /\ ~rendered

C4_Witness ==
    /\ pc = "rejected"
    /\ keywords = << <<" ">> >>
    /\ requests = <<>>

\* C5: no journal ever gets a second request; once the tasks have run (a
\* fetch has completed, or the run has ended after the launch) every journal
\* has got exactly one, a failure of its own or of another journal included.
C5_OneRequestPerJournal ==
    /\ \A j \in DOMAIN requests : requests[j] <= 1
    /\ (launched /\ (completionOrder # <<>> \/ pc \in {"done", "failed"})) =>
           \A j \in J : requests[j] = 1

C5_Witness ==
    /\ pc = "failed"
    /\ \A j \in J : requests[j] = 1
    /\ \E j \in J : task[j] = "failed_http" /\ upstream[j].kind = "transport"
    /\ \E j \in J : task[j] = "done" /\ j \in {doneQueue[i] : i \in 1..Len(doneQueue)}

\* whether a keyword occurs, case-insensitively, in title + " " + summary
occursIn(p, keyword) ==
    LET both == Lower(p.title \o <<" ">>
                        \o (IF p.summary = None THEN <<>> ELSE p.summary[1]))
    IN  \E i \in 1..Len(both) : OccursAt(both, Lower(keyword), i)

statedKept(p) ==
    /\ p.url # ""
    /\ (days = 0 \/ IsNone(p.age_days) \/ Get(p.age_days) <= days)

\* C11: the filter keeps exactly the scored papers that have a url and, when
\* days > 0, an unknown age or an age of at most days, in their order; so no
\* paper without a url and no paper older than days is in the final output.
C11_FilterKeepsExactly ==
    pc = "done" =>
        /\ papers = SelectSeq(all_papers, statedKept)
        /\ \A i \in 1..Len(top_papers) :
               /\ top_papers[i].url # ""
               /\ (days > 0 /\ ~IsNone(top_papers[i].age_days)
                     => Get(top_papers[i].age_days) <= days)
               /\ \E k \in 1..Len(papers) : papers[k] = top_papers[i]

\* a finished run with an age limit in which a paper exactly as old as the
\* limit and a paper of unknown age are reported and a paper without a url
\* was fetched
C11_Witness ==
    /\ pc = "done"
    /\ days > 0
    /\ \E i \in 1..Len(top_papers) : top_papers[i].age_days = Some(days)
    /\ \E i \in 1..Len(top_papers) : IsNone(top_papers[i].age_days)
    /\ \E i \in 1..Len(all_papers) : all_papers[i].url = ""

\* a < b for two strings, by code point; a proper prefix comes first
strBefore(a, b) ==
    \E k \in 1..(Len(b)) :
        /\ k <= Len(a) + 1
        /\ \A i \in 1..(k - 1) : a[i] = b[i]
        /\ (k = Len(a) + 1 \/ CharCode(a[k]) < CharCode(b[k]))

\* the parts of the stated keys: for each, whether p comes before q and
\* whether the two tie; a paper of unknown age comes after every known age
ageBefore(p, q) ==
    /\ ~IsNone(p.age_days)
    /\ (IsNone(q.age_days) \/ Get(p.age_days) < Get(q.age_days))
ageSame(p, q) == p.age_days = q.age_days
relevanceBefore(p, q) == p.relevance > q.relevance
relevanceSame(p, q) == p.relevance = q.relevance
titleBefore(p, q) == strBefore(Lower(p.title), Lower(q.title))
titleSame(p, q) == Lower(p.title) = Lower(q.title)
journalBefore(p, q) == strBefore(Lower(p.journal), Lower(q.journal))
journalSame(p, q) == Lower(p.journal) = Lower(q.journal)

\* p is not after q in the stated order of the selected strategy
statedNotAfter(p, q) ==
    IF sort_strategy = "score"
    THEN \/ relevanceBefore(p, q)
         \/ relevanceSame(p, q) /\ ageBefore(p, q)
         \/ relevanceSame(p, q) /\ ageSame(p, q)
              /\ (titleBefore(p, q) \/ titleSame(p, q))
    ELSE IF sort_strategy = "recency"
    THEN \/ ageBefore(p, q)
         \/ ageSame(p, q) /\ relevanceBefore(p, q)
         \/ ageSame(p, q) /\ relevanceSame(p, q)
              /\ (titleBefore(p, q) \/ titleSame(p, q))
    ELSE \/ journalBefore(p, q)
         \/ journalSame(p, q) /\ relevanceBefore(p, q)
         \/ journalSame(p, q) /\ relevanceSame(p, q)
              /\ (ageBefore(p, q) \/ ageSame(p, q))

occurrences(list, x) == Cardinality({i \in 1..Len(list) : list[i] = x})

emptyInOrder ==
    SelectSeq(completionOrder, LAMBDA j : TaskResult(j).papers = <<>>)

\* whether a paper of journal j is handed to the renderer
reported(j) ==
    \E i \in 1..Len(top_papers) : top_papers[i].journal = journal_configs[j].name

\* C15: the journals reported as having returned no match are the display
\* names of the journals whose fetch result has no paper, each once, in
\* fetch-completion order; a journal whose fetched papers were all removed
\* by the filter or the cut is not among them.
C15_MissingJournals ==
    pc = "done" =>
        LET missing == emptyInOrder
        IN  /\ empty_journals =
                 [i \in 1..Len(missing) |-> journal_configs[missing[i]].name]
            /\ \A j \in J :
                   TaskResult(j).papers # <<>> =>
                       \A i \in 1..Len(empty_journals) :
                           empty_journals[i] # journal_configs[j].name

\* a finished run in which two journals returned nothing, the one launched
\* later completing first, and the third journal's papers were all removed:
\* the report is empty and names two journals only
C15_Witness ==
    /\ pc = "done"
    /\ Len(empty_journals) = 2
    /\ \E a, b \in J :
           /\ a > b
           /\ empty_journals[1] = journal_configs[a].name
           /\ empty_journals[2] = journal_configs[b].name
    /\ \E j \in J : TaskResult(j).papers # <<>> /\ ~reported(j)
    /\ top_papers = <<>>

\* the score the scorer gives paper p, called with recency window 0, had p
\* the publication date d (None: no date)
scoreWithDate(p, d) ==
    Relevance([p EXCEPT !.published = d], keyword_list, 0, reference)

\* the publication days that make a paper at least one day old
olderDays == {d \in 0..Max(reference - 1, 0) : reference - d >= 1}

\* C17: in a run with days = 0 no paper is dropped for its age, a paper at
\* least one day old has the score it would have with any other such date
\* or with no date (freshness 0), and a paper of age 0 has 5.0 more.
C17_NoLimitFreshness ==
    pc = "done" /\ days = 0 =>
        /\ papers = SelectSeq(all_papers, LAMBDA p : p.url # "")
        /\ \A i \in 1..Len(all_papers) :
               LET p == all_papers[i]
                   undated == scoreWithDate(p, None)
               IN  /\ (~IsNone(p.age_days) /\ Get(p.age_days) >= 1 =>
                          /\ p.relevance = undated
                          /\ \A d \in olderDays :
                                 p.relevance = scoreWithDate(p, Some(d)))
                   /\ (p.age_days = Some(0) =>
                          p.relevance = undated + FreshnessWeight)

\* a finished run without age limit that reports a paper four days old and
\* scored a paper published today
C17_Witness ==
    /\ pc = "done"
    /\ days = 0
    /\ \E i \in 1..Len(top_papers) : top_papers[i].age_days = Some(4)
    /\ \E i \in 1..Len(all_papers) :
           /\ all_papers[i].age_days = Some(0)
           /\ all_papers[i].relevance >= FreshnessWeight

(***************************************************************************)
(* Properties of the coverage grouping (checked under SpecCoverage)        *)
(***************************************************************************)
grouped == ~IsNone(groups)

\* the indices of the returned groups that hold paper x
groupsHolding(x) ==
    {i \in 1..Len(Get(groups)) : occurrences(Get(groups)[i].papers, x) > 0}

\* the position of a level in the fixed order full, near, partial, single
levelRank(level) ==
    IF \E i \in 1..Len(Levels) : Levels[i] = level
    THEN CHOOSE i \in 1..Len(Levels) : Levels[i] = level
    ELSE Len(Levels) + 1

\* C13: for every list of papers and every total_keywords, zero and negative
\* values included, each input paper is in exactly one returned group, as
\* often as in the input; the groups are non-empty, hold input papers only
\* and appear in the order full, near, partial, single.
C13_Partition ==
    grouped =>
        LET g == Get(groups)
        IN  /\ \A k \in 1..Len(group_papers) :
                   \E i \in 1..Len(g) :
                       /\ groupsHolding(group_papers[k]) = {i}
                       /\ occurrences(g[i].papers, group_papers[k]) =
                            occurrences(group_papers, group_papers[k])
            /\ \A i \in 1..Len(g) :
                   /\ g[i].papers # <<>>
                   /\ \A n \in 1..Len(g[i].papers) :
                          occurrences(group_papers, g[i].papers[n]) > 0
            /\ \A i, k \in 1..Len(g) :
                   i < k => levelRank(g[i].level) < levelRank(g[k].level)

\* the level as stated, for total_keywords > 0
statedLevel(p) ==
    IF p.match_count >= total_keywords THEN "full"
    ELSE IF p.match_count >= total_keywords - 1 /\ p.match_count >= 1 THEN "near"
    ELSE IF p.match_count >= 1 THEN "partial"
    ELSE "single"

\* C14: for total_keywords > 0 every paper is in the group of its stated
\* level (full, else near from max(total_keywords - 1, 1) matches, else
\* partial from one match, else single); so with at most two keywords no
\* group is labelled partial, and a paper with exactly one match is never in
\* the group labelled single.
C14_CoverageLevel ==
    grouped /\ total_keywords > 0 =>
        LET g == Get(groups)
        IN  /\ \A k \in 1..Len(group_papers) :
                   \E i \in 1..Len(g) :
                       /\ g[i].level = statedLevel(group_papers[k])
                       /\ occurrences(g[i].papers, group_papers[k]) > 0
            /\ (total_keywords <= 2 =>
                   \A i \in 1..Len(g) : g[i].level # "partial")
            /\ \A i \in 1..Len(g) :
                   g[i].level = "single" =>
                       \A n \in 1..Len(g[i].papers) :
                           g[i].papers[n].match_count # 1

\* three keywords and papers with 0, 1 and 2 matches: the groups near,
\* partial and single are returned, in this order
C14_Witness ==
    /\ grouped
    /\ total_keywords = 3
    /\ Len(Get(groups)) = 3
    /\ Get(groups)[1].level = "near"
    /\ Get(groups)[2].level = "partial"
    /\ Get(groups)[2].papers[1].match_count = 1
    /\ Get(groups)[3].level = "single"

(***************************************************************************)
(* Properties of one fetch (checked under SpecFetch)                       *)
(***************************************************************************)
returned == ~IsNone(fetched)

\* clamp(3 x maxResults, 20, 150)
statedRows ==
    IF 3 * fetch_max_results < 20 THEN 20
    ELSE IF 3 * fetch_max_results > 150 THEN 150
    ELSE 3 * fetch_max_results

\* the call returned the first 2 x maxResults items of the page, as papers
prefixReturned ==
    /\ rows = Some(statedRows)
    /\ Len(Get(fetched)) <= 2 * fetch_max_results
    /\ Len(Get(fetched)) <= Len(items)
    /\ (Len(Get(fetched)) < Len(items)
          => Len(Get(fetched)) = 2 * fetch_max_results)
    /\ \A i \in 1..Len(Get(fetched)) :
           Get(fetched)[i] = ItemToPaper(journal_configs[1], items[i])

\* the candidates of the page that the call does not return
dropped == Len(items) - Len(Get(fetched))
fullPage == Len(items) = Get(rows)

\* C16 as stated: the request asks for clamp(3 x maxResults, 20, 150) rows,
\* the call returns the first 2 x maxResults items of the page, and for
\* every maxResults < 10 most of the candidates fetched beyond maxResults
\* are not returned when the page is full.
C16_MostDroppedBelowTen ==
    returned =>
        /\ prefixReturned
        /\ (fullPage /\ fetch_max_results < 10
              => 2 * dropped > Len(items) - fetch_max_results)

\* C16, amended: the request asks for clamp(3 x maxResults, 20, 150) rows
\* and the call returns the first 2 x maxResults items of the page; of a
\* full page max(rows - 2 x maxResults, 0) candidates are not returned,
\* which is more than half of the page for maxResults <= 4, more than half
\* of the candidates beyond maxResults for maxResults <= 6, a third of the
\* page for maxResults from 7 to 50, and none from maxResults = 75 on.
C16_PrefixOfPage ==
    returned =>
        /\ prefixReturned
        /\ (fullPage =>
              /\ dropped = Max(statedRows - 2 * fetch_max_results, 0)
              /\ (fetch_max_results <= 4 => 2 * dropped > Len(items))
              /\ (fetch_max_results <= 6
                    => 2 * dropped > Len(items) - fetch_max_results)
              /\ (fetch_max_results >= 7 /\ fetch_max_results <= 50
                    => 3 * dropped = Len(items))
              /\ (fetch_max_results >= 75 => dropped = 0))

\* --limit 1: 20 rows asked, 20 items received, 2 papers returned
C16_Witness ==
    /\ returned
    /\ fetch_max_results = 1
    /\ rows = Some(20)
    /\ Len(items) = 20
    /\ Len(Get(fetched)) = 2
    /\ dropped = 18
====
